---- MODULE Spec2Model ----
(***************************************************************************)
(* Model of src/google/protobuf/compiler/allowlists/allowlists.cc:         *)
(* the lazily built registry of named allowlists (LoadAllowlists), the     *)
(* loader of one allowlist file (LoadAllowlist, GetContents) and the       *)
(* membership query (IsAllowlisted).                                       *)
(*                                                                         *)
(* A string is a sequence of one-character strings, so that StartsWith,    *)
(* std::getline and string equality are computed character by character.   *)
(* A path is the sequence of the pieces absl::StrCat joins.                *)
(***************************************************************************)
EXTENDS Naturals, Sequences, FiniteSets, TLC

VARIABLES
    fs,          \* the file system: path -> contents of the files that can be opened
    map_guard,   \* one-time initialisation of LoadAllowlists' static `map`
    m,           \* the heap AllowlistMap the static initialiser builds; *map once done
    loads,       \* history: the names LoadAllowlist was called with, in order
    opens,       \* history: name -> the open attempts GetContents made, in order
    builders,    \* history: the threads that ran the static initialiser
    pc,          \* per thread: position inside IsAllowlisted
    allowlist,   \* per thread: IsAllowlisted's first argument
    file,        \* per thread: IsAllowlisted's second argument
    map,         \* per thread: IsAllowlisted's local copy `map`
    ret,         \* per thread: the boolean the last completed call returned
    stale        \* history, per thread: fs changed after the thread's last return

vars == <<fs, map_guard, m, loads, opens, builders,
          pc, allowlist, file, map, ret, stale>>

---------------------------------------------------------------------------
(* Bounds of the model *)

NumThreads == 2
MaxFileLen == 3

Threads == 1..NumThreads

---------------------------------------------------------------------------
(* Strings *)

NL == "\n"
Alphabet == {"a", "/", " ", NL}

SeqsUpTo(S, n) == UNION {[1..k -> S] : k \in 0..n}

\* absl::StrCat
StrCat(a, b, c) == a \o b \o c

\* Mutant of StartsWith: the prefix is looked for anywhere in the text.
StartsWith_anywhere(text, prefix) ==
    \E i \in 1..Len(text) :
        /\ i + Len(prefix) - 1 <= Len(text)
        /\ SubSeq(text, i, i + Len(prefix) - 1) = prefix

\* Mutant of StartsWith: the text is compared with the prefix as a whole.
StartsWith_exact(text, prefix) == text = prefix

\* absl::StartsWith
StartsWith(text, prefix) ==
    /\ Len(text) >= Len(prefix)
    /\ SubSeq(text, 1, Len(prefix)) = prefix

\* Index of the first NL of s, 0 if it has none.
FirstNL(s) ==
    IF \E i \in 1..Len(s) : s[i] = NL
    THEN CHOOSE i \in 1..Len(s) : s[i] = NL /\ \A j \in 1..(i - 1) : s[j] # NL
    ELSE 0

\* The lines the loop `while (std::getline(ifstream, line))` sees: getline
\* takes the characters up to the next NL and drops the NL; at the end of the
\* data it extracts nothing, fails, and the loop ends.
RECURSIVE getline(_)
getline(data) ==
    IF data = <<>> THEN <<>>
    ELSE LET i == FirstNL(data) IN
         IF i = 0 THEN <<data>>
         ELSE <<SubSeq(data, 1, i - 1)>> \o getline(SubSeq(data, i + 1, Len(data)))

---------------------------------------------------------------------------
(* Paths and files *)

kAllowlistPathPrefix == <<"third_party/protobuf/compiler/allowlists/">>

GetRunfilesDir == <<"RUNFILES">>

\* LoadAllowlist's local_path
local_path(allowlist_path) == StrCat(kAllowlistPathPrefix, <<allowlist_path>>, <<".txt">>)

\* GetContents' full_path
full_path(path) == StrCat(GetRunfilesDir, <<"/google3/">>, path)

kNone == "kNone"
kAllowAllWhenEmpty == "kAllowAllWhenEmpty"

\* Mutant of Allowlists: the kAllowAllWhenEmpty flag is given to the next call.
Allowlists_flagMisplaced ==
    << [name |-> "weak_imports", flag |-> kNone],
       [name |-> "test_allowlist_empty_allow_all", flag |-> kNone],
       [name |-> "test_allowlist_empty_allow_none", flag |-> kAllowAllWhenEmpty],
       [name |-> "test_allowlist", flag |-> kNone] >>

\* The calls of the static initialiser, in order.
Allowlists ==
    << [name |-> "weak_imports", flag |-> kNone],
       [name |-> "test_allowlist_empty_allow_all", flag |-> kAllowAllWhenEmpty],
       [name |-> "test_allowlist_empty_allow_none", flag |-> kNone],
       [name |-> "test_allowlist", flag |-> kNone] >>

Registered == {Allowlists[i].name : i \in 1..Len(Allowlists)}

PrimaryPaths == {full_path(local_path(n)) : n \in Registered}
FallbackPaths == {local_path(n) : n \in Registered}

\* A file system in which every primary path holds the one element of ps (none
\* if ps is empty) and every fallback path the one element of qs.
FileSystem(ps, qs) ==
    [p \in (IF ps = {} THEN {} ELSE PrimaryPaths)
           \cup (IF qs = {} THEN {} ELSE FallbackPaths) |->
        IF p \in PrimaryPaths THEN CHOOSE c \in ps : TRUE ELSE CHOOSE c \in qs : TRUE]

---------------------------------------------------------------------------
(* Input sets *)

\* "// comment", "a/b.c", "d/e.c", "x/y.c"
CommentLine == <<"/", "/", " ", "c", "o", "m", "m", "e", "n", "t">>
EntryAB == <<"a", "/", "b", ".", "c">>
EntryDE == <<"d", "/", "e", ".", "c">>
EntryXY == <<"x", "/", "y", ".", "c">>

ExampleFile == CommentLine \o <<NL>> \o EntryAB \o <<NL>> \o EntryDE

\* File contents the loader is run on.
PrimaryFiles == SeqsUpTo(Alphabet, MaxFileLen) \cup {ExampleFile}
FallbackFiles == {<<>>, <<"/", "/", NL, "a", " ">>, ExampleFile}

\* Query strings.
Queries ==
    { <<>>, <<"a">>, <<" ">>, <<"/", "/">>, <<"a", "/">>, <<"a", " ">>,
      EntryAB, CommentLine, EntryXY }

\* Names IsAllowlisted is called with: the registered ones and one that is not.
QueryNames == Registered \cup {"not_registered"}

\* The file systems of the concurrent specification: no file at all; a primary
\* file of test_allowlist, with one entry or with another; a fallback file of
\* test_allowlist_empty_allow_all whose first line is a comment.
FileSystems ==
    { FileSystem({}, {}),
      full_path(local_path("test_allowlist")) :> <<"a", NL>>,
      full_path(local_path("test_allowlist")) :> <<"b">>,
      local_path("test_allowlist_empty_allow_all") :> <<"/", "/", "b", NL, "a">> }

ConcQueries == {<<"a">>}

---------------------------------------------------------------------------
(* AllowlistInfo (allowlist.h): the entry set and the policy flag *)

AllowlistInfo(contents, flag) == [contents |-> contents, flag |-> flag]

AllowlistInfo_empty(info) == info.contents = {}

AllowlistInfo_IsAllowlisted(info, f) == f \in info.contents

AllowlistInfo_flag(info) == info.flag

---------------------------------------------------------------------------
(* The loader *)

\* std::ifstream(path): the file's data if the file can be opened.
ifstream(fsys, path) ==
    IF path \in DOMAIN fsys
    THEN [ok |-> TRUE, path |-> path, data |-> fsys[path]]
    ELSE [ok |-> FALSE, path |-> path, data |-> <<>>]

\* Mutant of GetContents: the fallback file is also tried when the primary
\* file opened and gave no entry.
GetContents_supplement(fsys, path) ==
    LET first == ifstream(fsys, full_path(path))
        second == ifstream(fsys, path)
        entries(stream) ==
            LET lines == IF stream.ok THEN getline(stream.data) ELSE <<>>
            IN  {lines[i] : i \in {j \in 1..Len(lines) :
                                     ~StartsWith(lines[j], <<"/", "/">>)}}
        again == ~first.ok \/ entries(first) = {}
    IN  [ contents |-> IF again THEN entries(second) ELSE entries(first),
          opened |-> IF again
                     THEN << [path |-> first.path, ok |-> first.ok],
                             [path |-> second.path, ok |-> second.ok] >>
                     ELSE << [path |-> first.path, ok |-> first.ok] >> ]

\* GetContents: the entry set, and the open attempts it made.
GetContents(fsys, path) ==
    LET first == ifstream(fsys, full_path(path))
        second == ifstream(fsys, path)
        stream == IF ~first.ok THEN second ELSE first
        lines == IF stream.ok THEN getline(stream.data) ELSE <<>>
    IN  [ contents |-> {lines[i] : i \in {j \in 1..Len(lines) :
                                            ~StartsWith(lines[j], <<"/", "/">>)}},
          opened |-> IF ~first.ok
                     THEN << [path |-> first.path, ok |-> first.ok],
                             [path |-> second.path, ok |-> second.ok] >>
                     ELSE << [path |-> first.path, ok |-> first.ok] >> ]

EmptyMap == [n \in {} |-> AllowlistInfo({}, kNone)]

\* flat_hash_map::emplace: inserts unless the key is present.
emplace(mp, key, value) ==
    IF key \in DOMAIN mp THEN mp ELSE [k \in DOMAIN mp \cup {key} |->
                                         IF k = key THEN value ELSE mp[k]]

\* Mutant of LoadAllowlist: the flag is dropped, as by the two-argument overload.
LoadAllowlist_dropFlag(fsys, allowlist_path, mp, flag) ==
    emplace(mp, allowlist_path,
            AllowlistInfo(GetContents(fsys, local_path(allowlist_path)).contents, kNone))

\* LoadAllowlist(allowlist_path, map, flag): the map after the call.
LoadAllowlist(fsys, allowlist_path, mp, flag) ==
    emplace(mp, allowlist_path,
            AllowlistInfo(GetContents(fsys, local_path(allowlist_path)).contents, flag))

\* Mutant of IsAllowlistedResult: the policy flag is consulted before the set.
IsAllowlistedResult_flagFirst(mp, name, f) ==
    LET info == mp[name] IN
    IF AllowlistInfo_flag(info) = kAllowAllWhenEmpty
    THEN TRUE
    ELSE AllowlistInfo_IsAllowlisted(info, f)

\* IsAllowlisted, after the fatal check: the value returned.
IsAllowlistedResult(mp, name, f) ==
    LET info == mp[name] IN
    IF ~AllowlistInfo_empty(info)
    THEN AllowlistInfo_IsAllowlisted(info, f)
    ELSE AllowlistInfo_flag(info) = kAllowAllWhenEmpty

---------------------------------------------------------------------------
(* The program *)

Aborted == \E t \in Threads : pc[t] = "aborted"

InitProgram ==
    /\ map_guard = "uninit"
    /\ m = EmptyMap
    /\ loads = <<>>
    /\ opens = [n \in Registered |-> <<>>]
    /\ builders = {}
    /\ pc = [t \in Threads |-> "idle"]
    /\ allowlist = [t \in Threads |-> ""]
    /\ file = [t \in Threads |-> <<>>]
    /\ map = [t \in Threads |-> EmptyMap]
    /\ ret = [t \in Threads |-> FALSE]
    /\ stale = [t \in Threads |-> FALSE]

Init ==
    /\ fs \in FileSystems
    /\ InitProgram

InitLoad ==
    /\ \E ps \in {{}} \cup {{c} : c \in PrimaryFiles},
          qs \in {{}} \cup {{c} : c \in FallbackFiles} : fs = FileSystem(ps, qs)
    /\ InitProgram

\* A thread calls IsAllowlisted(n, f).
Call(t, n, f) ==
    /\ ~Aborted
    /\ pc[t] \in {"idle", "done"}
    /\ pc' = [pc EXCEPT ![t] = "LoadAllowlists"]
    /\ allowlist' = [allowlist EXCEPT ![t] = n]
    /\ file' = [file EXCEPT ![t] = f]
    /\ ret' = [ret EXCEPT ![t] = FALSE]
    /\ stale' = [stale EXCEPT ![t] = FALSE]
    /\ UNCHANGED <<fs, map_guard, m, loads, opens, builders, map>>

\* Mutant of BeginInit: `map` is not static, so a later call builds it again.
BeginInit_again(t) ==
    /\ ~Aborted
    /\ pc[t] = "LoadAllowlists"
    /\ map_guard \in {"uninit", "done"}
    /\ map_guard' = "running"
    /\ m' = EmptyMap
    /\ builders' = builders \cup {t}
    /\ pc' = [pc EXCEPT ![t] = "initializing"]
    /\ UNCHANGED <<fs, loads, opens, allowlist, file, map, ret, stale>>

\* LoadAllowlists, `static const auto map = ...` reached with the static not
\* yet initialised: this thread runs the initialiser; `new AllowlistMap()`.
BeginInit(t) ==
    /\ ~Aborted
    /\ pc[t] = "LoadAllowlists"
    /\ map_guard = "uninit"
    /\ map_guard' = "running"
    /\ m' = EmptyMap
    /\ builders' = builders \cup {t}
    /\ pc' = [pc EXCEPT ![t] = "initializing"]
    /\ UNCHANGED <<fs, loads, opens, allowlist, file, map, ret, stale>>

\* The initialiser's next LoadAllowlist call.
LoadNext(t) ==
    /\ ~Aborted
    /\ pc[t] = "initializing"
    /\ Len(loads) < Len(Allowlists)
    /\ LET a == Allowlists[Len(loads) + 1] IN
        /\ m' = LoadAllowlist(fs, a.name, m, a.flag)
        /\ loads' = Append(loads, a.name)
        /\ opens' = [opens EXCEPT ![a.name] =
                        @ \o GetContents(fs, local_path(a.name)).opened]
    /\ UNCHANGED <<fs, map_guard, builders, pc, allowlist, file, map, ret, stale>>

\* `return m;` ends the initialiser and the static is initialised; then
\* `return *map;` copies the map to the caller.
EndInit(t) ==
    /\ ~Aborted
    /\ pc[t] = "initializing"
    /\ Len(loads) = Len(Allowlists)
    /\ map_guard' = "done"
    /\ map' = [map EXCEPT ![t] = m]
    /\ pc' = [pc EXCEPT ![t] = "check"]
    /\ UNCHANGED <<fs, m, loads, opens, builders, allowlist, file, ret, stale>>

\* Mutant of ReturnMap: the initialisation is not guarded, so a thread that
\* arrives while another runs the initialiser reads the map as it is.
ReturnMap_unguarded(t) ==
    /\ ~Aborted
    /\ pc[t] = "LoadAllowlists"
    /\ map_guard \in {"running", "done"}
    /\ map' = [map EXCEPT ![t] = m]
    /\ pc' = [pc EXCEPT ![t] = "check"]
    /\ UNCHANGED <<fs, map_guard, m, loads, opens, builders, allowlist, file, ret, stale>>

\* Mutant of ReturnMap: every call loads the four lists from the files anew.
ReturnMap_reload(t) ==
    /\ ~Aborted
    /\ pc[t] = "LoadAllowlists"
    /\ map_guard = "done"
    /\ LET m1 == LoadAllowlist(fs, Allowlists[1].name, EmptyMap, Allowlists[1].flag)
           m2 == LoadAllowlist(fs, Allowlists[2].name, m1, Allowlists[2].flag)
           m3 == LoadAllowlist(fs, Allowlists[3].name, m2, Allowlists[3].flag)
           m4 == LoadAllowlist(fs, Allowlists[4].name, m3, Allowlists[4].flag)
       IN  map' = [map EXCEPT ![t] = m4]
    /\ pc' = [pc EXCEPT ![t] = "check"]
    /\ UNCHANGED <<fs, map_guard, m, loads, opens, builders, allowlist, file, ret, stale>>

\* LoadAllowlists with the static initialised: `return *map;`. A thread that
\* arrives while another runs the initialiser waits (no step is enabled).
ReturnMap(t) ==
    /\ ~Aborted
    /\ pc[t] = "LoadAllowlists"
    /\ map_guard = "done"
    /\ map' = [map EXCEPT ![t] = m]
    /\ pc' = [pc EXCEPT ![t] = "check"]
    /\ UNCHANGED <<fs, map_guard, m, loads, opens, builders, allowlist, file, ret, stale>>

\* ABSL_CHECK(map.contains(allowlist)) fails: the process aborts.
CheckFails(t) ==
    /\ ~Aborted
    /\ pc[t] = "check"
    /\ allowlist[t] \notin DOMAIN map[t]
    /\ pc' = [pc EXCEPT ![t] = "aborted"]
    /\ UNCHANGED <<fs, map_guard, m, loads, opens, builders, allowlist, file, map, ret, stale>>

\* Mutant of Return: the check is left out and a missing name answers false.
Return_unchecked(t) ==
    /\ ~Aborted
    /\ pc[t] = "check"
    /\ ret' = [ret EXCEPT ![t] =
                  IF allowlist[t] \in DOMAIN map[t]
                  THEN IsAllowlistedResult(map[t], allowlist[t], file[t])
                  ELSE FALSE]
    /\ map' = [map EXCEPT ![t] = EmptyMap]
    /\ pc' = [pc EXCEPT ![t] = "done"]
    /\ UNCHANGED <<fs, map_guard, m, loads, opens, builders, allowlist, file, stale>>

\* The check passes: the lookup, and the return.
Return(t) ==
    /\ ~Aborted
    /\ pc[t] = "check"
    /\ allowlist[t] \in DOMAIN map[t]
    /\ ret' = [ret EXCEPT ![t] = IsAllowlistedResult(map[t], allowlist[t], file[t])]
    /\ map' = [map EXCEPT ![t] = EmptyMap]
    /\ pc' = [pc EXCEPT ![t] = "done"]
    /\ UNCHANGED <<fs, map_guard, m, loads, opens, builders, allowlist, file, stale>>

\* The environment creates, changes or removes allowlist files.
FsChange(fsys) ==
    /\ ~Aborted
    /\ fsys # fs
    /\ fs' = fsys
    /\ stale' = [t \in Threads |-> stale[t] \/ pc[t] = "done"]
    /\ UNCHANGED <<map_guard, m, loads, opens, builders, pc, allowlist, file, map, ret>>

Step(t) ==
    \/ BeginInit(t)
    \/ LoadNext(t)
    \/ EndInit(t)
    \/ ReturnMap(t)
    \/ CheckFails(t)
    \/ Return(t)

Next ==
    \/ \E t \in Threads, n \in QueryNames, f \in ConcQueries : Call(t, n, f)
    \/ \E t \in Threads : Step(t)
    \/ \E fsys \in FileSystems : FsChange(fsys)

Spec == Init /\ [][Next]_vars

\* One thread, any file contents, a file system that stays as it is.
MainThread == CHOOSE t \in Threads : \A u \in Threads : t <= u

NextLoad ==
    \/ \E n \in QueryNames, f \in Queries : Call(MainThread, n, f)
    \/ Step(MainThread)

SpecLoad == InitLoad /\ [][NextLoad]_vars

---------------------------------------------------------------------------
(* Vocabulary of the properties, stated without the loader's operators *)

AllowAllName == "test_allowlist_empty_allow_all"

SameString(a, b) == Len(a) = Len(b) /\ \A i \in 1..Len(a) : a[i] = b[i]

ProperPrefix(a, b) == Len(a) < Len(b) /\ \A i \in 1..Len(a) : a[i] = b[i]

\* The lines of a text, as <<first, last>> positions: a line starts at the
\* start of the text or after a NL, holds no NL, and ends before a NL or, if
\* it is not empty, at the end of the text.
LineSpans(s) ==
    { sp \in (1..(Len(s) + 1)) \X (0..Len(s)) :
        /\ sp[2] >= sp[1] - 1
        /\ (sp[1] = 1 \/ s[sp[1] - 1] = NL)
        /\ \A k \in sp[1]..sp[2] : s[k] # NL
        /\ \/ (sp[2] < Len(s) /\ s[sp[2] + 1] = NL)
           \/ (sp[2] = Len(s) /\ sp[2] >= sp[1]) }

CommentSpan(s, sp) == sp[2] >= sp[1] + 1 /\ s[sp[1]] = "/" /\ s[sp[1] + 1] = "/"

\* The non-comment lines of a text.
EntriesOf(s) == { SubSeq(s, sp[1], sp[2]) : sp \in {x \in LineSpans(s) : ~CommentSpan(s, x)} }

HasBlankLine(s) == \E sp \in LineSpans(s) : sp[2] = sp[1] - 1

BeginsWithSlashes(e) == Len(e) >= 2 /\ e[1] = "/" /\ e[2] = "/"

Primary(n) == <<"RUNFILES", "/google3/", "third_party/protobuf/compiler/allowlists/", n, ".txt">>
Fallback(n) == <<"third_party/protobuf/compiler/allowlists/", n, ".txt">>

\* Whether a file of n can be opened, and the data of the one the loader is to read.
Openable(n) == Primary(n) \in DOMAIN fs \/ Fallback(n) \in DOMAIN fs
OpenedData(n) == IF Primary(n) \in DOMAIN fs THEN fs[Primary(n)] ELSE fs[Fallback(n)]

Loaded == {loads[i] : i \in 1..Len(loads)}

\* What a registry loaded from the present file system would answer.
FreshAnswer(n, f) ==
    IF ~Openable(n) \/ EntriesOf(OpenedData(n)) = {}
    THEN n = AllowAllName
    ELSE f \in EntriesOf(OpenedData(n))

---------------------------------------------------------------------------
(* C1 *)

\* C1: for a registered name whose loaded entry set is not empty, IsAllowlisted
\* returns true exactly when the query equals some entry, character by
\* character, whatever the list's policy flag.
C1_ExactMembership ==
    \A t \in Threads :
        (pc[t] = "done" /\ m[allowlist[t]].contents # {})
            => (ret[t] <=> \E e \in m[allowlist[t]].contents : SameString(e, file[t]))

\* An AllowAll list with entries answers false for a proper prefix of an entry.
C1_Witness ==
    \E t \in Threads :
        /\ pc[t] = "done" /\ allowlist[t] = AllowAllName
        /\ m[allowlist[t]].flag = kAllowAllWhenEmpty
        /\ \E e \in m[allowlist[t]].contents : ProperPrefix(file[t], e)
        /\ ~ret[t]

(* C2 *)

\* C2: for a registered name whose loaded entry set is empty, IsAllowlisted
\* returns true if the list is configured kAllowAllWhenEmpty and false if it
\* is configured kNone, whatever the query.
C2_EmptyPolicy ==
    \A t \in Threads :
        (pc[t] = "done" /\ m[allowlist[t]].contents = {})
            => (ret[t] <=> allowlist[t] = AllowAllName)

\* The AllowAll list, loaded from a file of comments only, answers true.
C2_Witness ==
    \E t \in Threads :
        /\ pc[t] = "done" /\ allowlist[t] = AllowAllName
        /\ Openable(allowlist[t]) /\ OpenedData(allowlist[t]) # <<>>
        /\ m[allowlist[t]].contents = {}
        /\ file[t] # <<>> /\ ret[t]

(* C3 *)

\* C3: a call with a name that is not registered never returns; at the fatal
\* check its only step is the abort; and a call with a registered name never
\* fails the check.
C3_UnregisteredAborts ==
    \A t \in Threads :
        /\ pc[t] = "done" => allowlist[t] \in Registered
        /\ pc[t] = "aborted" => allowlist[t] \notin Registered
        /\ (pc[t] = "check" /\ ~Aborted) =>
              IF allowlist[t] \in Registered
              THEN ENABLED Return(t) /\ ~ENABLED CheckFails(t)
              ELSE ENABLED CheckFails(t) /\ ~ENABLED Return(t)

\* One thread aborted on the unregistered name after another call returned.
C3_Witness ==
    \E t, u \in Threads :
        /\ pc[t] = "aborted" /\ allowlist[t] = "not_registered"
        /\ pc[u] = "done"

(* C4 *)

\* C4: no entry of a loaded set begins with "//", so a query that begins with
\* "//" is answered false by every list that has entries; and the list with
\* policy kNone loaded from the example file answers true for "a/b.c" and
\* false for "// comment" and "x/y.c".
C4_NoCommentEntries ==
    /\ \A n \in DOMAIN m : \A e \in m[n].contents : ~BeginsWithSlashes(e)
    /\ \A t \in Threads :
          pc[t] = "done" =>
            /\ (BeginsWithSlashes(file[t]) /\ m[allowlist[t]].contents # {}) => ~ret[t]
            /\ ( /\ Openable(allowlist[t])
                 /\ OpenedData(allowlist[t]) = ExampleFile
                 /\ allowlist[t] # AllowAllName
                 /\ file[t] \in {EntryAB, CommentLine, EntryXY} )
               => (ret[t] <=> file[t] = EntryAB)

\* The example file, queried with its own comment line.
C4_Witness ==
    \E t \in Threads :
        /\ pc[t] = "done" /\ allowlist[t] = "test_allowlist"
        /\ Openable(allowlist[t]) /\ OpenedData(allowlist[t]) = ExampleFile
        /\ file[t] = CommentLine
        /\ ~ret[t]

(* C5 *)

\* C5: at most one thread ever runs the initialiser, and a thread performs its
\* check and lookup only on a copy of the completed map: the initialisation
\* is over, all four names are present and each entry set is the loaded one.
C5_OneCompleteRegistry ==
    /\ Cardinality(builders) <= 1
    /\ Cardinality({t \in Threads : pc[t] = "initializing"}) <= 1
    /\ \A t \in Threads :
          pc[t] = "check" =>
            /\ map_guard = "done"
            /\ Cardinality(builders) = 1
            /\ Len(loads) = 4
            /\ DOMAIN map[t] =
                 {"weak_imports", "test_allowlist_empty_allow_all",
                  "test_allowlist_empty_allow_none", "test_allowlist"}
            /\ map[t] = m

\* One thread is in the middle of the initialiser while another has called.
C5_Witness ==
    \E t, u \in Threads :
        /\ pc[t] = "initializing" /\ Len(loads) \in 1..3
        /\ pc[u] = "LoadAllowlists"

(* C6 *)

C6_Step ==
    /\ map_guard = "uninit" => map_guard' \in {"uninit", "running"}
    /\ map_guard = "running" => map_guard' \in {"running", "done"}
    /\ map_guard = "done" => (map_guard' = "done" /\ m' = m /\ loads' = loads)

C6_State ==
    /\ map_guard = "uninit" =>
          (loads = <<>> /\ \A t \in Threads : pc[t] \in {"idle", "LoadAllowlists"})
    /\ (\E t \in Threads : pc[t] \in {"check", "done", "aborted"}) => map_guard = "done"
    /\ map_guard = "done" =>
          /\ loads = <<"weak_imports", "test_allowlist_empty_allow_all",
                       "test_allowlist_empty_allow_none", "test_allowlist">>
          /\ DOMAIN m = Loaded

\* C6: the registry goes from uninitialised to initialised once, with the
\* first call, and never back; the loader runs once for each configured name;
\* and once initialised no step changes the registry.
C6_InitialisedOnce == [](C6_State) /\ [][C6_Step]_vars

\* Two calls have returned, the file system having changed between them.
C6_Witness ==
    /\ map_guard = "done"
    /\ \E t, u \in Threads : pc[t] = "done" /\ stale[t] /\ pc[u] = "done" /\ ~stale[u]

(* C7 *)

\* C7: two calls with the same registered name and the same query return the
\* same boolean, also when the files changed between them.
C7_Deterministic ==
    \A t, u \in Threads :
        (pc[t] = "done" /\ pc[u] = "done"
            /\ allowlist[t] = allowlist[u] /\ file[t] = file[u])
        => ret[t] = ret[u]

\* A call returned, the file system changed, the same call was made again and
\* returned, and a registry loaded now would answer otherwise.
C7_Witness ==
    \E t, u \in Threads :
        /\ pc[t] = "done" /\ stale[t]
        /\ pc[u] = "done" /\ ~stale[u]
        /\ allowlist[t] = allowlist[u] /\ file[t] = file[u]
        /\ FreshAnswer(allowlist[u], file[u]) # ret[u]

(* C8 *)

\* C8: for each loaded name the first open attempt is the primary path; there
\* is a second attempt exactly when the first failed, and it is the fallback
\* path; and the entries are those of the primary file if it opened, else
\* those of the fallback file if it opened, else none.
C8_PrimaryThenFallback ==
    \A n \in Loaded :
        LET o == opens[n] IN
        /\ Len(o) \in {1, 2}
        /\ o[1].path = Primary(n)
        /\ o[1].ok <=> Primary(n) \in DOMAIN fs
        /\ Len(o) = 2 <=> ~o[1].ok
        /\ Len(o) = 2 => (o[2].path = Fallback(n) /\ (o[2].ok <=> Fallback(n) \in DOMAIN fs))
        /\ m[n].contents =
             IF Primary(n) \in DOMAIN fs THEN EntriesOf(fs[Primary(n)])
             ELSE IF Fallback(n) \in DOMAIN fs THEN EntriesOf(fs[Fallback(n)])
             ELSE {}

\* A primary file that opens and holds no entry, beside a fallback file that
\* holds some: the set stays empty.
C8_Witness ==
    \E n \in Loaded :
        /\ Primary(n) \in DOMAIN fs /\ EntriesOf(fs[Primary(n)]) = {} /\ fs[Primary(n)] # <<>>
        /\ Fallback(n) \in DOMAIN fs /\ EntriesOf(fs[Fallback(n)]) # {}
        /\ m[n].contents = {}
        /\ Len(opens[n]) = 1

(* C9 *)

NoFileOpened == \A n \in Registered : \A i \in 1..Len(opens[n]) : ~opens[n][i].ok

\* C9: when every open attempt failed, the initialiser still runs to its end,
\* the registry holds the four names, each with no entry, and a call returns
\* true for test_allowlist_empty_allow_all and false for the other names.
C9_NoFiles ==
    NoFileOpened =>
        /\ \A t \in Threads :
              (pc[t] = "initializing" /\ ~Aborted) =>
                 (ENABLED LoadNext(t) \/ ENABLED EndInit(t))
        /\ map_guard = "done" =>
              /\ DOMAIN m = {"weak_imports", "test_allowlist_empty_allow_all",
                             "test_allowlist_empty_allow_none", "test_allowlist"}
              /\ \A n \in DOMAIN m : m[n].contents = {}
              /\ \A t \in Threads :
                    pc[t] = "done" =>
                      (ret[t] <=> allowlist[t] = "test_allowlist_empty_allow_all")

\* No file was opened; one call on the AllowAll list returned true and one on
\* another list returned false.
C9_Witness ==
    /\ map_guard = "done" /\ NoFileOpened
    /\ \A n \in Registered : Len(opens[n]) = 2
    /\ \E t, u \in Threads :
          /\ pc[t] = "done" /\ allowlist[t] = "test_allowlist_empty_allow_all" /\ ret[t]
          /\ pc[u] = "done" /\ allowlist[u] = "weak_imports" /\ ~ret[u]

(* C10 *)

\* C10: the entry set of a loaded name whose file opened is the set of the
\* file's lines that do not begin with "//", verbatim; it is empty exactly
\* when the file has no such line; and an AllowAll list whose file holds a
\* blank line answers true for the empty string and false for a query that
\* is none of its lines.
C10_VerbatimLines ==
    /\ \A n \in Loaded :
          Openable(n) =>
            /\ m[n].contents = EntriesOf(OpenedData(n))
            /\ m[n].contents = {} <=>
                 \A sp \in LineSpans(OpenedData(n)) : CommentSpan(OpenedData(n), sp)
    /\ \A t \in Threads :
          ( /\ pc[t] = "done" /\ allowlist[t] = AllowAllName
            /\ Openable(allowlist[t]) /\ HasBlankLine(OpenedData(allowlist[t])) )
          => /\ file[t] = <<>> => ret[t]
             /\ file[t] \notin EntriesOf(OpenedData(allowlist[t])) => ~ret[t]

\* The AllowAll list, whose only entry is the blank line of its file, answers
\* false for "a".
C10_Witness ==
    \E t \in Threads :
        /\ pc[t] = "done" /\ allowlist[t] = AllowAllName
        /\ Openable(allowlist[t]) /\ HasBlankLine(OpenedData(allowlist[t]))
        /\ m[allowlist[t]].contents = {<<>>}
        /\ file[t] = <<"a">> /\ ~ret[t]

====
